---- MODULE Spec2Model ----
(***************************************************************************)
(* zfs-auto-snapshot (kelleyk/zfstools): the snapshot naming codec, the    *)
(* per-series create/destroy policy of Tool.manageSnapshots and the loop   *)
(* of Tool.Main, as state machines.                                        *)
(*                                                                         *)
(* Text is a sequence of one-character strings.  A time.Time is the record *)
(*   [day |-> days since 1970-01-01 (UTC), sod |-> second of that day,     *)
(*    ns |-> nanoseconds, off |-> zone offset in seconds east of UTC].     *)
(***************************************************************************)
EXTENDS Integers, Sequences, FiniteSets, TLC

VARIABLES
    cStep,      \* codec harness: "start", "encoded", "decoded"
    cMeta,      \* codec harness: the snapMetadata given to Path()
    cName,      \* codec harness: the text handed to parseSnapName
    cRes,       \* codec harness: what parseSnapName returned
    zfs,        \* collaborator: dataset -> its snapshots' names, in creation order
    clock,      \* wall clock, seconds after 2020-01-01T00:00:00Z
    cli,        \* the command line: flags, arguments and the configuration file
    env,        \* collaborator: user properties, pool scan state, local zone
    pc,         \* "idle" (no process yet), "loop" (in Main's last loop), "done"
    tool,       \* the Tool: allowCreate, allowDestroy, datasetsByName, children
    targets,    \* targetDatasets still to be visited by the loop
    conf,       \* conf.Series as loaded
    passes,     \* this run's passes over (dataset, series) pairs, in order
    runErr,     \* whether Main returned an error
    runs,       \* processes started so far
    prev,       \* the previous run: its passes, error, clock and final snapshots
    setup,      \* Main's locals before its last loop: what was selected and removed
    bd          \* zfs-backing-devs: its invocation, the pool's vdev tree, its outcome

codecVars == <<cStep, cMeta, cName, cRes>>
engineVars ==
    <<zfs, clock, cli, env, pc, tool, targets, conf, passes, runErr, runs, prev, setup>>
devsVars == <<bd>>
vars == <<codecVars, engineVars, devsVars>>

----------------------------------------------------------------------------
(* Characters and decimal numbers (strconv-like helpers of package time).  *)

DigitChar == <<"0", "1", "2", "3", "4", "5", "6", "7", "8", "9">>

IsDigit(c) == \E i \in 1..10 : DigitChar[i] = c

DigitVal(c) == CHOOSE v \in 0..9 : DigitChar[v + 1] = c

AllDigits(s, a, b) == \A i \in a..b : IsDigit(s[i])

RECURSIVE atoi(_)
atoi(s) ==
    IF Len(s) = 0 THEN 0
    ELSE 10 * atoi(SubSeq(s, 1, Len(s) - 1)) + DigitVal(s[Len(s)])

RECURSIVE itoa(_)
itoa(n) ==
    IF n < 10 THEN <<DigitChar[n + 1]>>
    ELSE itoa(n \div 10) \o <<DigitChar[(n % 10) + 1]>>

RECURSIVE zeros(_)
zeros(k) == IF k <= 0 THEN <<>> ELSE <<"0">> \o zeros(k - 1)

\* time.appendInt: decimal text of x >= 0, zero-padded to at least width.
appendInt(x, width) == zeros(width - Len(itoa(x))) \o itoa(x)

----------------------------------------------------------------------------
(* The proleptic Gregorian calendar that time.Time.Format / time.Parse use. *)

isLeap(y) == y % 4 = 0 /\ (y % 100 # 0 \/ y % 400 = 0)

daysIn(m, y) ==
    IF m = 2 THEN (IF isLeap(y) THEN 29 ELSE 28)
    ELSE IF m \in {4, 6, 9, 11} THEN 30 ELSE 31

\* Days from 1970-01-01 to the civil date y-m-d.
daysFromCivil(y, m, d) ==
    LET yy  == IF m <= 2 THEN y - 1 ELSE y
        era == yy \div 400
        yoe == yy - era * 400
        mp  == (m + 9) % 12
        doy == (153 * mp + 2) \div 5 + d - 1
        doe == yoe * 365 + yoe \div 4 - yoe \div 100 + doy
    IN  era * 146097 + doe - 719468

\* The civil date of the day that is z0 days after 1970-01-01.
civilFromDays(z0) ==
    LET z   == z0 + 719468
        era == z \div 146097
        doe == z - era * 146097
        yoe == (doe - doe \div 1460 + doe \div 36524 - doe \div 146096) \div 365
        doy == doe - (365 * yoe + yoe \div 4 - yoe \div 100)
        mp  == (5 * doy + 2) \div 153
        d   == doy - (153 * mp + 2) \div 5 + 1
        m   == IF mp < 10 THEN mp + 3 ELSE mp - 9
        y   == yoe + era * 400 + (IF m <= 2 THEN 1 ELSE 0)
    IN  [year |-> y, month |-> m, day |-> d]

\* t.Equal(u): the same instant, whatever the location.
TimeEqual(t, u) == t.day = u.day /\ t.sod = u.sod /\ t.ns = u.ns

\* t.After(u).
After(t, u) ==
    \/ t.day > u.day
    \/ t.day = u.day /\ t.sod > u.sod
    \/ t.day = u.day /\ t.sod = u.sod /\ t.ns > u.ns

----------------------------------------------------------------------------
(* snapNameTimestampFormat = time.RFC3339 = "2006-01-02T15:04:05Z07:00".   *)

\* The zone element "Z07:00" of Format: Z for offset 0, else +hh:mm / -hh:mm
\* of the offset in whole minutes (offset / 60 truncates toward zero).
\* A Format that prints every offset as "Z".
FormatZoneUTC(off) == <<"Z">>

FormatZone(off) ==
    IF off = 0 THEN <<"Z">>
    ELSE LET mag  == (IF off < 0 THEN 0 - off ELSE off) \div 60
             sign == IF off <= 0 - 60 THEN "-" ELSE "+"
         IN  <<sign>> \o appendInt(mag \div 60, 2) \o <<":">> \o appendInt(mag % 60, 2)

\* ts.Format(time.RFC3339): wall clock of t in its own location; the
\* nanoseconds are not printed.
FormatRFC3339(t) ==
    LET wall == t.sod + t.off
        c    == civilFromDays(t.day + wall \div 86400)
        s    == wall % 86400
    IN  appendInt(c.year, 4) \o <<"-">> \o appendInt(c.month, 2) \o <<"-">>
        \o appendInt(c.day, 2) \o <<"T">> \o appendInt(s \div 3600, 2) \o <<":">>
        \o appendInt((s % 3600) \div 60, 2) \o <<":">> \o appendInt(s % 60, 2)
        \o FormatZone(t.off)

\* Length of the run of digits of x that starts at position p.
RECURSIVE digitRun(_, _)
digitRun(x, p) ==
    IF p <= Len(x) /\ IsDigit(x[p]) THEN 1 + digitRun(x, p + 1) ELSE 0

\* time.parseNanoseconds on the digits after the point: at most nine are read.
parseNanoseconds(ds) ==
    LET used == IF Len(ds) > 9 THEN SubSeq(ds, 1, 9) ELSE ds
        RECURSIVE scale(_, _)
        scale(v, k) == IF k <= 0 THEN v ELSE scale(v * 10, k - 1)
    IN  scale(atoi(used), 9 - Len(used))

\* time.Parse(time.RFC3339, x).  [ok |-> FALSE] is the *ParseError result.
\* It is reached only with text that RFC3339Pattern matched, so every field
\* has its full width; the fractional second is accepted although the layout
\* has none, "T" and "Z" are compared exactly, and a zone is required.
ParseFail == [ok |-> FALSE, t |-> [day |-> 0, sod |-> 0, ns |-> 0, off |-> 0]]

ParseRFC3339(x) ==
    LET n == Len(x)
        layoutOK ==
            /\ n >= 19
            /\ AllDigits(x, 1, 4) /\ x[5] = "-" /\ AllDigits(x, 6, 7) /\ x[8] = "-"
            /\ AllDigits(x, 9, 10) /\ x[11] = "T" /\ AllDigits(x, 12, 13)
            /\ x[14] = ":" /\ AllDigits(x, 15, 16) /\ x[17] = ":"
            /\ AllDigits(x, 18, 19)
    IN  IF ~layoutOK THEN ParseFail
        ELSE
        LET year  == atoi(SubSeq(x, 1, 4))
            month == atoi(SubSeq(x, 6, 7))
            day   == atoi(SubSeq(x, 9, 10))
            hour  == atoi(SubSeq(x, 12, 13))
            min   == atoi(SubSeq(x, 15, 16))
            sec   == atoi(SubSeq(x, 18, 19))
            hasFrac == n >= 21 /\ x[20] = "." /\ IsDigit(x[21])
            fracLen == IF hasFrac THEN digitRun(x, 21) ELSE 0
            nsec  == IF hasFrac THEN parseNanoseconds(SubSeq(x, 21, 20 + fracLen))
                     ELSE 0
            zp    == IF hasFrac THEN 21 + fracLen ELSE 20   \* where the zone starts
            z     == SubSeq(x, zp, n)
            isZ   == Len(z) = 1 /\ z[1] = "Z"
            isOff == /\ Len(z) = 6 /\ z[1] \in {"+", "-"} /\ z[4] = ":"
                     /\ AllDigits(z, 2, 3) /\ AllDigits(z, 5, 6)
            zoneOffset ==
                IF isOff
                THEN LET mag == (atoi(SubSeq(z, 2, 3)) * 60 + atoi(SubSeq(z, 5, 6))) * 60
                     IN  IF z[1] = "-" THEN 0 - mag ELSE mag
                ELSE 0
            rangeOK ==
                /\ month >= 1 /\ month <= 12
                /\ hour < 24 /\ min < 60 /\ sec < 60
                /\ day >= 1 /\ day <= daysIn(month, year)
            utc   == hour * 3600 + min * 60 + sec - zoneOffset
        IN  IF ~(isZ \/ isOff) \/ ~rangeOK THEN ParseFail
            ELSE [ok |-> TRUE,
                  t  |-> [day |-> daysFromCivil(year, month, day) + utc \div 86400,
                          sod |-> utc % 86400,
                          ns  |-> nsec,
                          off |-> zoneOffset]]

----------------------------------------------------------------------------
(* gokk.RFC3339Pattern and snapNameRegexp.                                  *)

\* (?i) \d{4}-\d{2}-\d{2}T\d{2}:\d{2}:\d{2}(?:\.\d+)?(?:Z|(?:[+-]\d{2}:\d{2}))?
\* matched against the whole of x.
FracText(f) == f = <<>> \/ (Len(f) >= 2 /\ f[1] = "." /\ AllDigits(f, 2, Len(f)))

ZoneText(z) ==
    \/ z = <<>>
    \/ Len(z) = 1 /\ z[1] \in {"Z", "z"}
    \/ /\ Len(z) = 6 /\ z[1] \in {"+", "-"} /\ z[4] = ":"
       /\ AllDigits(z, 2, 3) /\ AllDigits(z, 5, 6)

RFC3339Pattern(x) ==
    LET n == Len(x)
    IN  /\ n >= 19
        /\ AllDigits(x, 1, 4) /\ x[5] = "-" /\ AllDigits(x, 6, 7) /\ x[8] = "-"
        /\ AllDigits(x, 9, 10) /\ x[11] \in {"T", "t"} /\ AllDigits(x, 12, 13)
        /\ x[14] = ":" /\ AllDigits(x, 15, 16) /\ x[17] = ":" /\ AllDigits(x, 18, 19)
        /\ \E k \in 19..n : FracText(SubSeq(x, 20, k)) /\ ZoneText(SubSeq(x, k + 1, n))

\* "." of the regexp: any character but a line break.
Dot(c) == c # "\n"

\* (?i)^(.*)@(.+)_([^_]+)_(RFC3339Pattern)$ : FindStringSubmatch.  The
\* candidates are the positions <<a, u, v>> of the "@" and the two "_" of a
\* match; the groups are greedy from left to right, so the match returned
\* has the last possible "@" and, for it, the last possible first "_".
NoMatch == [matched |-> FALSE, dataset |-> <<>>, prefix |-> <<>>, label |-> <<>>, ts |-> <<>>]

snapNameRegexp(s) ==
    LET n  == Len(s)
        At == {i \in 1..n : s[i] = "@"}
        Us == {i \in 1..n : s[i] = "_"}
        cands == {c \in At \X Us \X Us :
                    /\ c[1] + 1 < c[2] /\ c[2] + 1 < c[3]
                    /\ \A i \in 1..(c[1] - 1) : Dot(s[i])
                    /\ \A i \in (c[1] + 1)..(c[2] - 1) : Dot(s[i])
                    /\ \A i \in (c[2] + 1)..(c[3] - 1) : s[i] # "_"
                    /\ RFC3339Pattern(SubSeq(s, c[3] + 1, n))}
    IN  IF cands = {} THEN NoMatch
        ELSE LET m == CHOOSE c \in cands : \A e \in cands :
                          c[1] > e[1] \/ (c[1] = e[1] /\ c[2] >= e[2])
             IN  [matched |-> TRUE,
                  dataset |-> SubSeq(s, 1, m[1] - 1),
                  prefix  |-> SubSeq(s, m[1] + 1, m[2] - 1),
                  label   |-> SubSeq(s, m[2] + 1, m[3] - 1),
                  ts      |-> SubSeq(s, m[3] + 1, n)]

----------------------------------------------------------------------------
(* snapMetadata: [dataset, prefix, label, ts].                              *)

\* (m *snapMetadata) Path()
Path(m) ==
    m.dataset \o <<"@">> \o m.prefix \o <<"_">> \o m.label \o <<"_">>
    \o FormatRFC3339(m.ts)

\* A decoder that accepts every prefix.
parseSnapNameAnyPrefix(expectedPrefix, path) ==
    LET m == snapNameRegexp(path)
    IN  IF ~m.matched THEN [meta |-> <<>>, err |-> FALSE]
        ELSE LET p == ParseRFC3339(m.ts)
             IN  IF ~p.ok THEN [meta |-> <<>>, err |-> TRUE]
                 ELSE [meta |-> << [dataset |-> m.dataset, prefix |-> m.prefix,
                                    label |-> m.label, ts |-> p.t] >>,
                       err  |-> FALSE]

\* A decoder that reads the timestamp before it compares the prefix.
parseSnapNameTimeFirst(expectedPrefix, path) ==
    LET m == snapNameRegexp(path)
    IN  IF ~m.matched THEN [meta |-> <<>>, err |-> FALSE]
        ELSE LET p == ParseRFC3339(m.ts)
             IN  IF ~p.ok THEN [meta |-> <<>>, err |-> TRUE]
                 ELSE IF m.prefix # expectedPrefix THEN [meta |-> <<>>, err |-> FALSE]
                 ELSE [meta |-> << [dataset |-> m.dataset, prefix |-> m.prefix,
                                    label |-> m.label, ts |-> p.t] >>,
                       err  |-> FALSE]

\* A decoder that takes an unreadable timestamp for a name that is not its own.
parseSnapNameLenient(expectedPrefix, path) ==
    LET m == snapNameRegexp(path)
    IN  IF ~m.matched \/ m.prefix # expectedPrefix THEN [meta |-> <<>>, err |-> FALSE]
        ELSE LET p == ParseRFC3339(m.ts)
             IN  IF ~p.ok THEN [meta |-> <<>>, err |-> FALSE]
                 ELSE [meta |-> << [dataset |-> m.dataset, prefix |-> m.prefix,
                                    label |-> m.label, ts |-> p.t] >>,
                       err  |-> FALSE]

\* parseSnapName(expectedPrefix, path): meta is <<>> for nil, <<m>> otherwise;
\* err is TRUE when a non-nil error is returned.
parseSnapName(expectedPrefix, path) ==
    LET m == snapNameRegexp(path)
    IN  IF ~m.matched THEN [meta |-> <<>>, err |-> FALSE]
        ELSE IF m.prefix # expectedPrefix THEN [meta |-> <<>>, err |-> FALSE]
        ELSE LET p == ParseRFC3339(m.ts)
             IN  IF ~p.ok THEN [meta |-> <<>>, err |-> TRUE]
                 ELSE [meta |-> << [dataset |-> m.dataset, prefix |-> m.prefix,
                                    label |-> m.label, ts |-> p.t] >>,
                       err  |-> FALSE]

----------------------------------------------------------------------------
(* The storage collaborator and the session mirror.                         *)
(*                                                                          *)
(* One pool "t" with the filesystem t and its child filesystem t/u.  The    *)
(* collaborator keeps, per dataset, the names of its snapshots in creation  *)
(* order.  A child of a mirrored dataset is [path, type].                   *)

PoolRoot == <<"t">>
ChildFs == <<"t", "/", "u">>
Datasets == {PoolRoot, ChildFs}

\* The filesystem children of a dataset (zfs.Dataset.Children, less snapshots).
FsChildren(d) == IF d = PoolRoot THEN <<ChildFs>> ELSE <<>>

\* seconds -> time.Time, counted from 2020-01-01T00:00:00Z, in zone tz.
TimeAt(c, tz) ==
    [day |-> daysFromCivil(2020, 1, 1) + c \div 86400, sod |-> c % 86400,
     ns |-> 0, off |-> tz]

\* now.Sub(ts) >= interval, with interval in whole seconds.
SinceAtLeast(now, ts, interval) ==
    LET secs == (now.day - ts.day) * 86400 + (now.sod - ts.sod)
    IN  secs > interval \/ (secs = interval /\ now.ns >= ts.ns)

RECURSIVE SeqToSet(_)
SeqToSet(s) == IF s = <<>> THEN {} ELSE {Head(s)} \cup SeqToSet(Tail(s))

RECURSIVE Without(_, _)
Without(s, x) ==
    IF s = <<>> THEN <<>>
    ELSE IF Head(s) = x THEN Without(Tail(s), x)
    ELSE <<Head(s)>> \o Without(Tail(s), x)

\* zfs.DatasetOpenAll(): the children of d as the mirror holds them.
OpenChildren(d, z) ==
    [i \in 1..Len(FsChildren(d)) |-> [path |-> FsChildren(d)[i], type |-> "filesystem"]]
    \o [i \in 1..Len(z[d]) |-> [path |-> z[d][i], type |-> "snapshot"]]

----------------------------------------------------------------------------
(* The snapshots of the model's world and the instants of its clock.        *)

MaxRuns == 2
MaxTicks == 1
TickSeconds == 30 * 60

MaxSnaps == 3
MaxKeep == 2

Prefix == <<"z">>           \* -prefix, "zfs-auto-snap" by default
Hourly == <<"h">>
Daily == <<"d">>
LocalZone == 0 - 25200      \* the zone of time.Now(): -07:00

\* The name the tool itself gives a snapshot taken at clock c.
OwnName(d, label, c) ==
    Path([dataset |-> d, prefix |-> Prefix, label |-> label, ts |-> TimeAt(c, LocalZone)])

\* An own name less the zone of its timestamp.
SansZone(n) == SubSeq(n, 1, Len(n) - Len(FormatZone(LocalZone)))

\* Snapshots that are on the pool's root filesystem in every initial state:
\* one taken by hand and one of another tool's prefix.
RootFixed ==
    << PoolRoot \o <<"@", "m">>,
       Path([dataset |-> PoolRoot, prefix |-> <<"y">>, label |-> Hourly,
             ts |-> TimeAt(0 - 9000, LocalZone)]) >>

\* Snapshots that may be there besides, oldest first: the tool's own, one
\* with a fractional second and one whose timestamp has no zone.
RootCandidates ==
    << OwnName(PoolRoot, Daily, 0 - 10800),
       OwnName(PoolRoot, Hourly, 0 - 7200),
       SansZone(OwnName(PoolRoot, Hourly, 0 - 7200)) \o <<".", "5">>
           \o FormatZone(LocalZone),
       SansZone(OwnName(PoolRoot, Hourly, 0 - 5400)),
       OwnName(PoolRoot, Hourly, 0 - 3660),
       OwnName(PoolRoot, Hourly, 0 - 1800) >>

ChildFixed == << OwnName(ChildFs, Hourly, 0 - 3660) >>

\* Every snapshot name and identity that can occur, with parseSnapName and
\* Path() tabulated over them; anything else is computed.
KnownNames ==
    SeqToSet(RootFixed) \cup SeqToSet(RootCandidates) \cup SeqToSet(ChildFixed)
    \cup {OwnName(d, l, k * TickSeconds) :
            d \in Datasets, l \in {Hourly, Daily, <<"h", "_", "s">>}, k \in 0..MaxTicks}

parsed == [n \in KnownNames |-> parseSnapName(Prefix, n)]

parseChild(prefix, path) ==
    IF prefix = Prefix /\ path \in KnownNames THEN parsed[path]
    ELSE parseSnapName(prefix, path)

KnownMetas == {parsed[n].meta[1] : n \in {x \in KnownNames : Len(parsed[x].meta) = 1}}

paths == [m \in KnownMetas |-> Path(m)]

snapPath(m) == IF m \in KnownMetas THEN paths[m] ELSE Path(m)

----------------------------------------------------------------------------
(* byTS and sort.Sort.                                                      *)

\* A Less that puts the oldest snapshot first.
byTSLessOldestFirst(a, b) == After(b.ts, a.ts)

\* byTS.Less(i, j): a[i].ts.After(a[j].ts)
byTSLess(a, b) == After(a.ts, b.ts)

\* sort.Sort on a slice of fewer than 12 elements is an insertion sort.
RECURSIVE insertSorted(_, _)
insertSorted(l, x) ==
    IF l = <<>> \/ ~byTSLess(x, l[Len(l)]) THEN Append(l, x)
    ELSE Append(insertSorted(SubSeq(l, 1, Len(l) - 1), x), l[Len(l)])

RECURSIVE sortByTS(_)
sortByTS(l) ==
    IF l = <<>> THEN <<>>
    ELSE insertSorted(sortByTS(SubSeq(l, 1, Len(l) - 1)), l[Len(l)])

----------------------------------------------------------------------------
(* Tool.getSnapshots, Tool.removeSnapshots, Tool.manageSnapshots.           *)

\* getSnapshots(d, label) over the mirrored children ch of d:
\* [snaps, err]; the first parse error ends the listing.  collectOne is the
\* loop body for a snapshot child whose name parsed to r.
RECURSIVE collectSnaps(_, _, _, _, _)
RECURSIVE collectOne(_, _, _, _, _, _)
collectOne(ch, i, prefix, label, acc, r) ==
    IF r.err THEN [snaps |-> <<>>, err |-> TRUE]
    ELSE IF Len(r.meta) = 1 /\ r.meta[1].label = label
         THEN collectSnaps(ch, i + 1, prefix, label, Append(acc, r.meta[1]))
         ELSE collectSnaps(ch, i + 1, prefix, label, acc)

collectSnaps(ch, i, prefix, label, acc) ==
    IF i > Len(ch) THEN [snaps |-> sortByTS(acc), err |-> FALSE]
    ELSE IF ch[i].type # "snapshot" THEN collectSnaps(ch, i + 1, prefix, label, acc)
    ELSE collectOne(ch, i, prefix, label, acc, parseChild(prefix, ch[i].path))

\* A listing that pays no attention to the label.
getSnapshotsAnyLabel(ch, prefix, label) ==
    LET snapAt(i) == ch[i].type = "snapshot"
        own == SelectSeq([i \in 1..Len(ch) |-> i],
                         LAMBDA i : /\ snapAt(i)
                                    /\ Len(parseChild(prefix, ch[i].path).meta) = 1)
    IN  IF \E i \in 1..Len(ch) : snapAt(i) /\ parseChild(prefix, ch[i].path).err
        THEN [snaps |-> <<>>, err |-> TRUE]
        ELSE [snaps |-> sortByTS([k \in 1..Len(own) |->
                                     parseChild(prefix, ch[own[k]].path).meta[1]]),
              err   |-> FALSE]

\* A listing that returns the snapshots in the order of the children.
getSnapshotsUnsorted(ch, prefix, label) ==
    LET snapAt(i) == ch[i].type = "snapshot"
        own == SelectSeq([i \in 1..Len(ch) |-> i],
                         LAMBDA i : /\ snapAt(i)
                                    /\ Len(parseChild(prefix, ch[i].path).meta) = 1
                                    /\ parseChild(prefix, ch[i].path).meta[1].label = label)
    IN  IF \E i \in 1..Len(ch) : snapAt(i) /\ parseChild(prefix, ch[i].path).err
        THEN [snaps |-> <<>>, err |-> TRUE]
        ELSE [snaps |-> [k \in 1..Len(own) |-> parseChild(prefix, ch[own[k]].path).meta[1]],
              err   |-> FALSE]

getSnapshots(ch, prefix, label) == collectSnaps(ch, 1, prefix, label, <<>>)

\* dd.Destroy(false) on the collaborator's snapshots zs of the dataset: it
\* fails for a snapshot that no longer exists, and when the fault says so.
DestroyOK(zs, path, callNo, fault) ==
    path \in SeqToSet(zs) /\ fault.destroyAt # callNo

\* removeSnapshots(d, snaps): ch are the mirrored children, zs the
\* collaborator's snapshots of d, calls the Destroy calls made so far.
\* reqs lists each Destroy request and whether it succeeded.
RECURSIVE removeLoop(_, _, _, _, _, _, _)
removeLoop(ch, i, snapPaths, zs, reqs, calls, fault) ==
    IF i > Len(ch)
    THEN [zs |-> zs, reqs |-> reqs, calls |-> calls, err |-> snapPaths # {}]
    ELSE IF ch[i].type = "snapshot" /\ ch[i].path \in snapPaths
    THEN IF DestroyOK(zs, ch[i].path, calls + 1, fault)
         THEN removeLoop(ch, i + 1, snapPaths \ {ch[i].path}, Without(zs, ch[i].path),
                         Append(reqs, [path |-> ch[i].path, ok |-> TRUE]),
                         calls + 1, fault)
         ELSE [zs |-> zs, reqs |-> Append(reqs, [path |-> ch[i].path, ok |-> FALSE]),
               calls |-> calls + 1, err |-> TRUE]
    ELSE removeLoop(ch, i + 1, snapPaths, zs, reqs, calls, fault)

\* A removal that goes on after a Destroy failed and reports it at the end.
RECURSIVE removeLoopKeepGoing(_, _, _, _, _, _, _, _)
removeLoopKeepGoing(ch, i, snapPaths, zs, reqs, calls, fault, failed) ==
    IF i > Len(ch)
    THEN [zs |-> zs, reqs |-> reqs, calls |-> calls, err |-> failed \/ snapPaths # {}]
    ELSE IF ch[i].type = "snapshot" /\ ch[i].path \in snapPaths
    THEN IF DestroyOK(zs, ch[i].path, calls + 1, fault)
         THEN removeLoopKeepGoing(ch, i + 1, snapPaths \ {ch[i].path},
                                  Without(zs, ch[i].path),
                                  Append(reqs, [path |-> ch[i].path, ok |-> TRUE]),
                                  calls + 1, fault, failed)
         ELSE removeLoopKeepGoing(ch, i + 1, snapPaths \ {ch[i].path}, zs,
                                  Append(reqs, [path |-> ch[i].path, ok |-> FALSE]),
                                  calls + 1, fault, TRUE)
    ELSE removeLoopKeepGoing(ch, i + 1, snapPaths, zs, reqs, calls, fault, failed)

removeSnapshotsKeepGoing(ch, snaps, zs, calls, fault) ==
    removeLoopKeepGoing(ch, 1, {snapPath(snaps[i]) : i \in 1..Len(snaps)}, zs, <<>>,
                        calls, fault, FALSE)

removeSnapshots(ch, snaps, zs, calls, fault) ==
    removeLoop(ch, 1, {snapPath(snaps[i]) : i \in 1..Len(snaps)}, zs, <<>>, calls, fault)

\* zfs.DatasetSnapshot(path, false, props): fails when the snapshot exists
\* already, and when the fault says so.
SnapshotOK(zs, path, fault) == path \notin SeqToSet(zs) /\ ~fault.create

\* A due rule that wants the newest snapshot strictly older than the interval.
DueStrict(snaps, now, s) ==
    Len(snaps) = 0 \/ SinceAtLeast(now, snaps[1].ts, s.Interval + 1)

\* A due rule that holds every series due.
DueAlways(snaps, now, s) == TRUE

\* Whether the series is due: no snapshot, or the newest one is old enough.
Due(snaps, now, s) ==
    Len(snaps) = 0 \/ SinceAtLeast(now, snaps[1].ts, s.Interval)

\* A count with the new snapshot put last.
CountedAppend(snaps, meta, due, allowCreate) ==
    IF due /\ allowCreate THEN snaps \o <<meta>> ELSE snaps

\* A count that includes the due snapshot whether or not it is taken.
CountedIntended(snaps, meta, due, allowCreate) ==
    IF due THEN <<meta>> \o snaps ELSE snaps

\* What is counted against Keep: the snapshot just taken goes first.
Counted(snaps, meta, due, allowCreate) ==
    IF due /\ allowCreate THEN <<meta>> \o snaps ELSE snaps

\* A trim that keeps one snapshot fewer: snaps[s.Keep-1:].
ExcessFromHead(snaps, keep) ==
    IF Len(snaps) > keep THEN SubSeq(snaps, keep, Len(snaps)) ELSE <<>>

\* snaps[s.Keep:] when len(snaps) > s.Keep.
Excess(snaps, keep) ==
    IF Len(snaps) > keep THEN SubSeq(snaps, keep + 1, Len(snaps)) ELSE <<>>

\* One iteration of the loop over series in manageSnapshots, statement by
\* statement.  c is what the iteration starts from: the dataset d, its
\* mirrored children ch, the series s, the collaborator's snapshots zs of d,
\* the Destroy calls made so far, the time, the prefix, the Tool's flags and
\* the fault; each step adds what its statements compute.

\* snaps, err := tool.getSnapshots(d, s.Label)
passList(c) ==
    c @@ [got |-> getSnapshots(c.ch, c.prefix, c.s.Label)]

\* now := time.Now(); the test of the first if; meta and its Path()
passDue(c) ==
    c @@ [due  |-> ~c.got.err /\ Due(c.got.snaps, c.now, c.s),
          meta |-> [dataset |-> c.d, prefix |-> c.prefix, label |-> c.s.Label,
                    ts |-> c.now],
          name |-> snapPath([dataset |-> c.d, prefix |-> c.prefix,
                             label |-> c.s.Label, ts |-> c.now])]

\* if tool.allowCreate { zfs.DatasetSnapshot(...); snaps = append(...) }
passCreate(c) ==
    c @@ [createOK |-> c.due /\ c.allowCreate /\ SnapshotOK(c.zs, c.name, c.fault),
          snaps    |-> Counted(c.got.snaps, c.meta, c.due, c.allowCreate)]

\* if len(snaps) > s.Keep: snaps[s.Keep:], unless the iteration has returned
passTrim(c) ==
    c @@ [marked |-> IF c.got.err \/ (c.due /\ c.allowCreate /\ ~c.createOK)
                     THEN <<>> ELSE Excess(c.snaps, c.s.Keep),
          zs1    |-> IF c.createOK THEN Append(c.zs, c.name) ELSE c.zs]

\* if tool.allowDestroy { tool.removeSnapshots(d, snaps[s.Keep:]) }
passRemove(c) ==
    c @@ [rm |-> IF c.marked # <<>> /\ c.allowDestroy
                 THEN removeSnapshots(c.ch, c.marked, c.zs1, c.calls, c.fault)
                 ELSE [zs |-> c.zs1, reqs |-> <<>>, calls |-> c.calls, err |-> FALSE]]

\* What the iteration listed, decided, requested and changed.
passRecord(c) ==
    [ds |-> c.d, series |-> c.s, now |-> c.now,
     listed |-> c.got.snaps, listErr |-> c.got.err,
     due |-> c.due,
     createReq |-> IF c.due /\ c.allowCreate THEN <<c.name>> ELSE <<>>,
     created |-> c.createOK,
     marked |-> c.marked,
     destroyReqs |-> c.rm.reqs,
     calls |-> c.rm.calls,
     err |-> c.got.err \/ (c.due /\ c.allowCreate /\ ~c.createOK) \/ c.rm.err,
     before |-> c.zs, after |-> c.rm.zs]

SeriesPass(d, ch, s, zs, calls, now, prefix, allowCreate, allowDestroy, fault) ==
    passRecord(passRemove(passTrim(passCreate(passDue(passList(
        [d |-> d, ch |-> ch, s |-> s, zs |-> zs, calls |-> calls, now |-> now,
         prefix |-> prefix, allowCreate |-> allowCreate,
         allowDestroy |-> allowDestroy, fault |-> fault]))))))

\* manageSnapshots(d, series): the passes made, in order; it returns at the
\* first pass that fails.  manageRest is the loop after the pass p.
RECURSIVE manageLoop(_, _, _, _, _, _, _, _, _, _, _)
RECURSIVE manageRest(_, _, _, _, _, _, _, _, _, _)
manageRest(d, ch, series, i, now, prefix, allowCreate, allowDestroy, fault, p) ==
    IF p.err THEN <<p>>
    ELSE <<p>> \o manageLoop(d, ch, series, i + 1, p.after, p.calls, now,
                             prefix, allowCreate, allowDestroy, fault)

manageLoop(d, ch, series, i, zs, calls, now, prefix, allowCreate, allowDestroy, fault) ==
    IF i > Len(series) THEN <<>>
    ELSE manageRest(d, ch, series, i, now, prefix, allowCreate, allowDestroy, fault,
                    SeriesPass(d, ch, series[i], zs, calls, now, prefix,
                               allowCreate, allowDestroy, fault))

manageSnapshots(d, ch, series, zs, now, prefix, allowCreate, allowDestroy, fault) ==
    manageLoop(d, ch, series, 1, zs, 0, now, prefix, allowCreate, allowDestroy, fault)

----------------------------------------------------------------------------
(* Tool.preinit, Tool.selectDatasets, Tool.datasetExcluded, poolScanning,   *)
(* loadConfig.                                                              *)

Sentinel == <<"/", "/">>    \* the argument "//"

\* walkDataset restricted to what its callbacks keep: d and its descendants
\* that are not snapshots, in visiting order.
RECURSIVE walkDataset(_)
walkDataset(d) ==
    LET RECURSIVE each(_, _)
        each(cs, i) == IF i > Len(cs) THEN <<>> ELSE walkDataset(cs[i]) \o each(cs, i + 1)
    IN  <<d>> \o each(FsChildren(d), 1)

\* No dataset's Path() fails during the walk of preinit.
NoWalkFail == <<>>

\* preinit: tool.datasetsByName.  The callback stores every dataset it is
\* handed until dd.Path() fails for e.walkFail; walkDataset then returns that
\* error, preinit leaves its loop with "return nil", and the mirror holds
\* what was stored before.  The error is not part of the result because
\* preinit never returns one from the walk.
preinit(e) ==
    LET w == walkDataset(PoolRoot)
    IN  {w[i] : i \in {x \in 1..Len(w) : \A y \in 1..x : w[y] # e.walkFail}}

\* A selection that pays no attention to -recursive.
selectDatasetsFlat(names, recursive, byName) ==
    IF Len(names) = 0 THEN [err |-> TRUE, targets |-> {}]
    ELSE IF Len(names) = 1 /\ names[1] = Sentinel THEN [err |-> FALSE, targets |-> byName]
    ELSE IF \E i \in 1..Len(names) : names[i] = Sentinel \/ names[i] \notin byName
    THEN [err |-> TRUE, targets |-> {}]
    ELSE [err |-> FALSE, targets |-> {names[i] : i \in 1..Len(names)}]

\* A selection that passes over the arguments it cannot resolve.
selectDatasetsSkipUnknown(names, recursive, byName) ==
    IF Len(names) = 0 THEN [err |-> TRUE, targets |-> {}]
    ELSE IF Len(names) = 1 /\ names[1] = Sentinel THEN [err |-> FALSE, targets |-> byName]
    ELSE [err |-> FALSE,
          targets |-> UNION { IF names[i] \notin byName THEN {}
                              ELSE IF recursive THEN SeqToSet(walkDataset(names[i]))
                              ELSE {names[i]} : i \in 1..Len(names) }]

\* selectDatasets(names): [err, targets]
selectDatasets(names, recursive, byName) ==
    IF Len(names) = 0 THEN [err |-> TRUE, targets |-> {}]
    ELSE IF Len(names) = 1 /\ names[1] = Sentinel THEN [err |-> FALSE, targets |-> byName]
    ELSE IF \E i \in 1..Len(names) : names[i] = Sentinel \/ names[i] \notin byName
    THEN [err |-> TRUE, targets |-> {}]
    ELSE [err |-> FALSE,
          targets |-> UNION { IF recursive THEN SeqToSet(walkDataset(names[i]))
                              ELSE {names[i]} : i \in 1..Len(names) }]

\* strings.ToLower on the letters property values are written with.
ToLower(v) ==
    [i \in 1..Len(v) |->
        CASE v[i] = "T" -> "t" [] v[i] = "R" -> "r" [] v[i] = "U" -> "u"
          [] v[i] = "E" -> "e" [] v[i] = "F" -> "f" [] v[i] = "A" -> "a"
          [] v[i] = "L" -> "l" [] v[i] = "S" -> "s" [] OTHER -> v[i]]

\* An exclusion test that compares the value as it is written.
datasetExcludedCaseSensitive(prop, defaultExclude) ==
    IF prop = <<>> THEN defaultExclude
    ELSE IF prop[1] = <<"t", "r", "u", "e">> THEN FALSE
    ELSE IF prop[1] = <<"f", "a", "l", "s", "e">> THEN TRUE
    ELSE defaultExclude

\* datasetExcluded(d, defaultExclude); prop is <<>> when com.sun:auto-snapshot
\* is not set on d and <<value>> when it is.
datasetExcluded(prop, defaultExclude) ==
    IF prop = <<>> THEN defaultExclude
    ELSE IF ToLower(prop[1]) = <<"t", "r", "u", "e">> THEN FALSE
    ELSE IF ToLower(prop[1]) = <<"f", "a", "l", "s", "e">> THEN TRUE
    ELSE defaultExclude

\* datasetExcluded logs "unexpected value for property".
datasetExcludedWarns(prop) ==
    /\ prop # <<>>
    /\ ToLower(prop[1]) \notin { <<"t", "r", "u", "e">>, <<"f", "a", "l", "s", "e">> }

\* A scan test that never sees a scan.
poolScanningNever(d, e) == FALSE

\* poolScanning(d): every dataset of the model is on the one pool.
poolScanning(d, e) == e.scanning

\* A validation that looks at the first series only.
ValidateFirstOnly(series) ==
    /\ Len(series) > 0
    /\ (series[1].Label = <<>> \/ series[1].Keep <= 0 \/ series[1].Interval <= 0)

\* (c *configFile) Validate(): TRUE when an error is returned.
ValidateErr(series) ==
    \E i \in 1..Len(series) :
        series[i].Label = <<>> \/ series[i].Keep <= 0 \/ series[i].Interval <= 0

\* The part of Main before its last loop.  selected is what selectDatasets
\* returned (selErr: its error); excluded and skipped are the datasets the
\* first loop deleted for their property and for a scan of their pool, warned
\* those it logged a warning about; loadErr is the error of -config and
\* loadConfig; err, targets and conf are what the last loop starts from.
MainSetup(c, e) ==
    LET byName  == preinit(e)
        sel     == selectDatasets(c.args, c.recursive, byName)
        excl    == {d \in sel.targets : datasetExcluded(e.props[d], c.defaultExclude)}
        skipped == {d \in sel.targets \ excl : c.skipScrub /\ poolScanning(d, e)}
        loadErr == ~c.configPath \/ ValidateErr(c.config)
    IN  [err      |-> sel.err \/ loadErr,
         targets  |-> (sel.targets \ excl) \ skipped,
         conf     |-> IF sel.err \/ loadErr THEN <<>> ELSE c.config,
         selErr   |-> sel.err,
         selected |-> sel.targets,
         excluded |-> excl,
         skipped  |-> skipped,
         warned   |-> {d \in sel.targets : datasetExcludedWarns(e.props[d])},
         loadErr  |-> ~sel.err /\ loadErr]

----------------------------------------------------------------------------
(* The processes.                                                           *)

NoSetup ==
    [selErr |-> FALSE, selected |-> {}, excluded |-> {}, skipped |-> {}, warned |-> {},
     loadErr |-> FALSE]

NoPrev == [valid |-> FALSE, passes |-> <<>>, runErr |-> FALSE, clock |-> 0, zfs |-> <<>>]

\* What the collaborator may refuse: every snapshot request of a call of
\* manageSnapshots, or its destroyAt-th Destroy request.
NoFault == [create |-> FALSE, destroyAt |-> 0]
FaultInputs ==
    { NoFault, [create |-> TRUE, destroyAt |-> 0],
      [create |-> FALSE, destroyAt |-> 1], [create |-> FALSE, destroyAt |-> 2] }

\* Flags that pay no attention to -dry-run.
allowedIgnoringDryRun(flag, dryRun) == flag

\* main(): allowCreate: *allowCreate && !*dryRun, and allowDestroy alike.
allowed(flag, dryRun) == flag /\ ~dryRun

\* Time passes between two runs.
Tick ==
    /\ pc = "done"
    /\ clock < MaxTicks * TickSeconds
    /\ clock' = clock + TickSeconds
    /\ UNCHANGED <<zfs, cli, env, pc, tool, targets, conf, passes, runErr, runs, prev, setup>>
    /\ UNCHANGED codecVars
    /\ UNCHANGED devsVars

\* main() and Tool.Main up to its last loop: the Tool is built from the
\* flags, the mirror from the collaborator, the targets from the arguments,
\* the properties and the scan state, the series from the configuration.
\* r is what MainSetup returned.
MainBegin(r) ==
    /\ tool' = [allowCreate  |-> allowed(cli.create, cli.dryRun),
                allowDestroy |-> allowed(cli.destroy, cli.dryRun),
                datasetsByName |-> preinit(env),
                children |-> [d \in Datasets |-> OpenChildren(d, zfs)]]
    /\ targets' = r.targets
    /\ conf' = r.conf
    /\ runErr' = r.err
    /\ setup' = [selErr |-> r.selErr, selected |-> r.selected, excluded |-> r.excluded,
                 skipped |-> r.skipped, warned |-> r.warned, loadErr |-> r.loadErr]
    /\ pc' = IF r.err THEN "done" ELSE "loop"

MainStart ==
    /\ pc \in {"idle", "done"}
    /\ runs < MaxRuns
    /\ MainBegin(MainSetup(cli, env))
    /\ passes' = <<>>
    /\ runs' = runs + 1
    /\ prev' = IF pc = "done"
               THEN [valid |-> TRUE, passes |-> passes, runErr |-> runErr,
                     clock |-> clock, zfs |-> zfs]
               ELSE NoPrev
    /\ UNCHANGED <<zfs, clock, cli, env>>
    /\ UNCHANGED codecVars
    /\ UNCHANGED devsVars

\* One iteration "for _, d := range targetDatasets": manageSnapshots(d, series)
\* made the passes ps; an error ends Main.
LoopEffect(d, ps) ==
    /\ passes' = passes \o ps
    /\ zfs' = IF ps = <<>> THEN zfs ELSE [zfs EXCEPT ![d] = ps[Len(ps)].after]
    /\ targets' = targets \ {d}
    /\ runErr' = (ps # <<>> /\ ps[Len(ps)].err)
    /\ pc' = IF ps # <<>> /\ ps[Len(ps)].err THEN "done" ELSE "loop"

LoopStep(series, faults) ==
    /\ pc = "loop"
    /\ \E d \in targets, fault \in faults :
        LoopEffect(d, manageSnapshots(d, tool.children[d], series, zfs[d],
                                      TimeAt(clock, env.tz), cli.prefix,
                                      tool.allowCreate, tool.allowDestroy, fault))
    /\ UNCHANGED <<clock, cli, env, tool, conf, runs, prev, setup>>
    /\ UNCHANGED codecVars
    /\ UNCHANGED devsVars

\* Tool.Main, line 158: manageSnapshots(d, []seriesConfig{})
MainLoop == LoopStep(<<>>, {NoFault})

\* The same loop handing the loaded series to manageSnapshots.
SeriesLoop == LoopStep(conf, FaultInputs)

\* Main returns nil after the loop.
MainReturn ==
    /\ pc = "loop"
    /\ targets = {}
    /\ pc' = "done"
    /\ UNCHANGED <<zfs, clock, cli, env, tool, targets, conf, passes, runErr, runs,
                   prev, setup>>
    /\ UNCHANGED codecVars
    /\ UNCHANGED devsVars

----------------------------------------------------------------------------
(* Initial states: the snapshots found on the datasets, the command line,   *)
(* the configuration file.                                                  *)

\* The elements of cands at the positions in idx, in order.
RECURSIVE Pick(_, _, _)
Pick(cands, idx, i) ==
    IF i > Len(cands) THEN <<>>
    ELSE (IF i \in idx THEN <<cands[i]>> ELSE <<>>) \o Pick(cands, idx, i + 1)

Found(cands) ==
    {Pick(cands, idx, 1) : idx \in {x \in SUBSET (1..Len(cands)) : Cardinality(x) <= MaxSnaps}}

SeriesInputs ==
    {[Label |-> Hourly, Interval |-> 3600, Keep |-> k] : k \in 1..MaxKeep}

ConfInputs ==
    {<<s>> : s \in SeriesInputs}
    \cup {<<s, [Label |-> Daily, Interval |-> 7200, Keep |-> 1]>> : s \in SeriesInputs}

NoProps == [d \in Datasets |-> <<>>]

DevsOff == bd = [step |-> "off"]

EngineOff ==
    /\ zfs = [d \in Datasets |-> <<>>]
    /\ clock = 0
    /\ cli = [args |-> <<>>]
    /\ env = [scanning |-> FALSE]
    /\ pc = "off"
    /\ tool = [allowCreate |-> FALSE]
    /\ targets = {}
    /\ conf = <<>>
    /\ passes = <<>>
    /\ runErr = FALSE
    /\ runs = 0
    /\ prev = NoPrev
    /\ setup = NoSetup

CodecOff ==
    /\ cStep = "off"
    /\ cMeta = [label |-> <<>>]
    /\ cName = <<>>
    /\ cRes = [meta |-> <<>>, err |-> FALSE]

ProcessInit ==
    /\ clock = 0
    /\ pc = "idle"
    /\ tool = [allowCreate |-> FALSE, allowDestroy |-> FALSE, datasetsByName |-> {},
               children |-> [d \in Datasets |-> <<>>]]
    /\ targets = {}
    /\ conf = <<>>
    /\ passes = <<>>
    /\ runErr = FALSE
    /\ runs = 0
    /\ prev = NoPrev
    /\ setup = NoSetup
    /\ CodecOff
    /\ DevsOff

\* The series loop: all datasets named by "//", every toggle, every
\* configuration.
InitSeries ==
    /\ env = [props |-> NoProps, scanning |-> FALSE, tz |-> LocalZone, walkFail |-> NoWalkFail]
    /\ \E r \in Found(RootCandidates) :
          zfs = [d \in Datasets |-> IF d = PoolRoot THEN RootFixed \o r ELSE ChildFixed]
    /\ \E dry \in BOOLEAN, cr \in BOOLEAN, de \in BOOLEAN, cf \in ConfInputs :
          cli = [args |-> <<Sentinel>>, recursive |-> FALSE, defaultExclude |-> FALSE,
                 skipScrub |-> TRUE, dryRun |-> dry, create |-> cr, destroy |-> de,
                 prefix |-> Prefix, configPath |-> TRUE, config |-> cf]
    /\ ProcessInit

\* Main: every way of naming the targets, every exclusion property, a pool
\* that is or is not being scrubbed, a configuration that is valid or not.
ArgInputs ==
    { <<>>, <<Sentinel>>, <<PoolRoot>>, <<ChildFs>>, <<PoolRoot, ChildFs>>,
      <<PoolRoot, Sentinel>>, <<<<"x">>>>, <<RootFixed[1]>> }

PropInputs ==
    { <<>>, <<<<"t", "r", "u", "e">>>>, <<<<"F", "a", "l", "s", "e">>>>, <<<<"x">>>> }

BadConf == << [Label |-> Hourly, Interval |-> 3600, Keep |-> 0] >>

\* Configurations that Validate rejects: keep 0, no label, interval 0, and
\* a negative keep in a second series.
BadConfInputs ==
    { BadConf,
      << [Label |-> <<>>, Interval |-> 3600, Keep |-> 1] >>,
      << [Label |-> Hourly, Interval |-> 0, Keep |-> 1] >>,
      << [Label |-> Hourly, Interval |-> 3600, Keep |-> 1],
         [Label |-> Daily, Interval |-> 7200, Keep |-> 0 - 1] >> }

\* A label with an underscore, which Validate accepts.
SplitLabel == <<"h", "_", "s">>

\* Two series of one label, which Validate accepts.
TwinConf ==
    << [Label |-> Hourly, Interval |-> 3600, Keep |-> 1],
       [Label |-> Hourly, Interval |-> 3600, Keep |-> MaxKeep] >>

\* -config and the file it names: a valid file, a rejected one, no -config.
ConfigInputs ==
    {[path |-> TRUE, series |-> <<x>>] : x \in SeriesInputs}
    \cup {[path |-> TRUE, series |-> << [Label |-> SplitLabel, Interval |-> 3600, Keep |-> 1] >>],
          [path |-> TRUE, series |-> TwinConf]}
    \cup {[path |-> TRUE, series |-> x] : x \in BadConfInputs}
    \cup {[path |-> FALSE, series |-> <<x>>] : x \in SeriesInputs}

\* The snapshots every run of Main starts from.
InitSnapshots ==
    [d \in Datasets |->
        IF d = PoolRoot
        THEN RootFixed \o << OwnName(PoolRoot, Hourly, 0 - 7200),
                             OwnName(PoolRoot, Hourly, 0 - 3660) >>
        ELSE ChildFixed]

Init ==
    /\ \E pr \in [Datasets -> PropInputs], sc \in BOOLEAN :
          env = [props |-> pr, scanning |-> sc, tz |-> LocalZone, walkFail |-> NoWalkFail]
    /\ zfs = InitSnapshots
    /\ \E a \in ArgInputs, rec \in BOOLEAN, dx \in BOOLEAN, sk \in BOOLEAN,
          cf \in ConfigInputs :
          cli = [args |-> a, recursive |-> rec, defaultExclude |-> dx,
                 skipScrub |-> sk, dryRun |-> FALSE, create |-> TRUE, destroy |-> TRUE,
                 prefix |-> Prefix, configPath |-> cf.path, config |-> cf.series]
    /\ ProcessInit

Next == Tick \/ MainStart \/ MainLoop \/ MainReturn

Spec == Init /\ [][Next]_vars

SeriesNext == Tick \/ MainStart \/ SeriesLoop \/ MainReturn

SpecSeries == InitSeries /\ [][SeriesNext]_vars

\* Main with every way of naming the targets, and the loop handing the
\* loaded series to manageSnapshots.
SpecRun == Init /\ [][SeriesNext]_vars

\* Main when the walk of preinit may fail: dd.Path() fails for no dataset or
\* for one of them, with every way of naming the targets.
InitMirror ==
    /\ \E f \in {NoWalkFail} \cup Datasets :
          env = [props |-> NoProps, scanning |-> FALSE, tz |-> LocalZone, walkFail |-> f]
    /\ zfs = InitSnapshots
    /\ \E a \in ArgInputs, rec \in BOOLEAN, cf \in ConfigInputs :
          cli = [args |-> a, recursive |-> rec, defaultExclude |-> FALSE,
                 skipScrub |-> TRUE, dryRun |-> FALSE, create |-> TRUE, destroy |-> TRUE,
                 prefix |-> Prefix, configPath |-> cf.path, config |-> cf.series]
    /\ ProcessInit

SpecMirror == InitMirror /\ [][SeriesNext]_vars

----------------------------------------------------------------------------
(* Codec harness: Path() applied to a snapMetadata, then parseSnapName      *)
(* applied to the text with the metadata's own prefix as expectedPrefix.    *)

MaxPrefixLen == 2
MaxLabelLen == 2

SeqsUpTo(A, n) == UNION {[1..k -> A] : k \in 0..n}

\* -prefix is any flag value; labels come from the configuration file.
PrefixInputs == SeqsUpTo({"z", "_", "@", "\n"}, MaxPrefixLen)
LabelInputs == SeqsUpTo({"h", "_", "@"}, MaxLabelLen)
DatasetInputs == {<<"t">>, <<"t", "/", "u">>}

TimeInputs ==
    { [day |-> daysFromCivil(2020, 1, 1), sod |-> 0, ns |-> 0, off |-> 0],
      [day |-> daysFromCivil(2020, 1, 1), sod |-> 0, ns |-> 0, off |-> 0 - 25200],
      [day |-> daysFromCivil(2020, 2, 29), sod |-> 86399, ns |-> 0, off |-> 19800],
      [day |-> daysFromCivil(2020, 2, 29), sod |-> 86399, ns |-> 500000000, off |-> 0],
      [day |-> daysFromCivil(2020, 7, 4), sod |-> 43200, ns |-> 0, off |-> 30],
      [day |-> daysFromCivil(9999, 12, 31), sod |-> 86399, ns |-> 0, off |-> 0],
      [day |-> daysFromCivil(9999, 12, 31), sod |-> 86399, ns |-> 0, off |-> 3600],
      [day |-> daysFromCivil(10000, 1, 1), sod |-> 0, ns |-> 0, off |-> 0] }

MetaInputs ==
    [dataset : DatasetInputs, prefix : PrefixInputs, label : LabelInputs, ts : TimeInputs]

CodecInit ==
    /\ cStep = "start"
    /\ cMeta \in MetaInputs
    /\ cName = <<>>
    /\ cRes = [meta |-> <<>>, err |-> FALSE]
    /\ EngineOff
    /\ DevsOff

\* name := meta.Path()
Encode ==
    /\ cStep = "start"
    /\ cName' = Path(cMeta)
    /\ cStep' = "encoded"
    /\ UNCHANGED <<cMeta, cRes>>
    /\ UNCHANGED engineVars
    /\ UNCHANGED devsVars

\* parseSnapName(meta.prefix, name)
Decode ==
    /\ cStep = "encoded"
    /\ cRes' = parseSnapName(cMeta.prefix, cName)
    /\ cStep' = "decoded"
    /\ UNCHANGED <<cMeta, cName>>
    /\ UNCHANGED engineVars
    /\ UNCHANGED devsVars

CodecNext == Encode \/ Decode

SpecCodec == CodecInit /\ [][CodecNext]_vars

----------------------------------------------------------------------------
(* Decoding of names that were not made by Path(): each name is put         *)
(* together from pieces, and parseSnapName is applied with an expected      *)
(* prefix of its own.                                                       *)

DateTexts ==
    { [text |-> <<"2","0","2","0","-","0","1","-","0","1">>, valid |-> TRUE],
      [text |-> <<"2","0","2","0","-","1","3","-","0","1">>, valid |-> FALSE],
      [text |-> <<"2","0","1","9","-","0","2","-","2","9">>, valid |-> FALSE] }

SepTexts == { [text |-> <<"T">>, valid |-> TRUE], [text |-> <<"t">>, valid |-> FALSE] }

ClockTexts ==
    { [text |-> <<"0","0",":","0","0",":","0","0">>, valid |-> TRUE],
      [text |-> <<"2","4",":","0","0",":","0","0">>, valid |-> FALSE] }

FracTexts == { <<>>, <<".", "5">> }

ZoneTexts ==
    { [text |-> <<"Z">>, valid |-> TRUE],
      [text |-> <<"-","0","7",":","0","0">>, valid |-> TRUE],
      [text |-> <<"z">>, valid |-> FALSE],
      [text |-> <<>>, valid |-> FALSE] }

NameShapes == {"own", "manual", "dateOnly", "noAt", "emptyLabel", "trailing"}

ParsePrefixes == { <<"z">>, <<"y">>, <<"z", "_", "a">> }
ParseLabels == { <<"h">>, <<"d", "1">> }

NameParts ==
    { q \in [dataset : DatasetInputs, prefix : ParsePrefixes, label : ParseLabels,
             date : DateTexts, sep : SepTexts, clock : ClockTexts, frac : FracTexts,
             zone : ZoneTexts, shape : NameShapes, expected : ParsePrefixes] :
        q.shape # "own" =>
            /\ q.sep.valid /\ q.clock.valid /\ q.frac = <<>>
            /\ q.expected = q.prefix }

StampText(q) == q.date.text \o q.sep.text \o q.clock.text \o q.frac \o q.zone.text

NameOf(q) ==
    CASE q.shape = "own" ->
           q.dataset \o <<"@">> \o q.prefix \o <<"_">> \o q.label \o <<"_">> \o StampText(q)
      [] q.shape = "manual" -> q.dataset \o <<"@">> \o q.label
      [] q.shape = "dateOnly" ->
           q.dataset \o <<"@">> \o q.prefix \o <<"_">> \o q.label \o <<"_">> \o q.date.text
      [] q.shape = "noAt" ->
           q.dataset \o <<"_">> \o q.prefix \o <<"_">> \o q.label \o <<"_">> \o StampText(q)
      [] q.shape = "emptyLabel" ->
           q.dataset \o <<"@">> \o q.prefix \o <<"_", "_">> \o StampText(q)
      [] q.shape = "trailing" ->
           q.dataset \o <<"@">> \o q.prefix \o <<"_">> \o q.label \o <<"_">> \o StampText(q)
           \o <<"_", "x">>

ParseInit ==
    /\ cStep = "named"
    /\ cMeta \in NameParts
    /\ cName = NameOf(cMeta)
    /\ cRes = [meta |-> <<>>, err |-> FALSE]
    /\ EngineOff
    /\ DevsOff

\* parseSnapName(expectedPrefix, name)
Parse ==
    /\ cStep = "named"
    /\ cRes' = parseSnapName(cMeta.expected, cName)
    /\ cStep' = "parsed"
    /\ UNCHANGED <<cMeta, cName>>
    /\ UNCHANGED engineVars
    /\ UNCHANGED devsVars

ParseNext == Parse

SpecParse == ParseInit /\ [][ParseNext]_vars

----------------------------------------------------------------------------
(* zfs-backing-devs.  A vdev is [type, name, devices]; an outcome is        *)
(* [out |-> the lines printed on stdout, status |-> the exit status,        *)
(*  note |-> "" , "usage", "error" (the line "Error: ..." on stderr) or     *)
(*  "panic" (the runtime's trace on stderr)].                               *)

MaxDevices == 2

\* The callback of getBackingDevices on the vdev n: whether it panics,
\* whether the walk descends, the device name it appends.
visitVDev(n) ==
    CASE n.type \in {"root", "mirror", "raidz", "replacing"} ->
           [panic |-> Len(n.devices) = 0, recurse |-> TRUE, add |-> <<>>]
      [] n.type = "hole" ->
           [panic |-> Len(n.devices) > 0, recurse |-> FALSE, add |-> <<>>]
      [] n.type \in {"spare", "log", "l2cache", "missing"} ->
           [panic |-> Len(n.devices) > 0, recurse |-> TRUE, add |-> <<>>]
      [] n.type = "disk" ->
           [panic |-> Len(n.devices) > 0, recurse |-> TRUE, add |-> <<n.name>>]
      [] OTHER -> [panic |-> TRUE, recurse |-> FALSE, add |-> <<>>]

\* visitVDevTreeNodes(f, n), f being that callback: acc is
\* [devs |-> backingDevices so far, panic |-> whether the walk panicked].
RECURSIVE visitVDevTreeNodes(_, _)
visitVDevTreeNodes(n, acc) ==
    LET RECURSIVE each(_, _, _)
        each(cs, i, a) ==
            IF i > Len(cs) \/ a.panic THEN a
            ELSE each(cs, i + 1, visitVDevTreeNodes(cs[i], a))
    IN  IF acc.panic THEN acc
        ELSE IF visitVDev(n).panic THEN [devs |-> acc.devs, panic |-> TRUE]
        ELSE IF visitVDev(n).recurse
        THEN each(n.devices, 1, [devs |-> acc.devs \o visitVDev(n).add, panic |-> FALSE])
        ELSE [devs |-> acc.devs \o visitVDev(n).add, panic |-> FALSE]

\* getBackingDevices(datasetPath): fail names the lookup that fails
\* ("open", "pool", "tree") or is "none".
getBackingDevices(fail, tree) ==
    IF fail # "none" THEN [devs |-> <<>>, err |-> TRUE, panic |-> FALSE]
    ELSE [devs  |-> visitVDevTreeNodes(tree, [devs |-> <<>>, panic |-> FALSE]).devs,
          err   |-> FALSE,
          panic |-> visitVDevTreeNodes(tree, [devs |-> <<>>, panic |-> FALSE]).panic]

\* main() of zfs-backing-devs, g being what getBackingDevices returned.
devsOutcome(g) ==
    IF g.panic THEN [out |-> <<>>, status |-> 2, note |-> "panic"]
    ELSE IF g.err \/ Len(g.devs) = 0 THEN [out |-> <<>>, status |-> 1, note |-> "error"]
    ELSE [out |-> g.devs, status |-> 0, note |-> ""]

devsMain(help, nargs, fail, tree) ==
    IF help \/ nargs # 1 THEN [out |-> <<>>, status |-> 0, note |-> "usage"]
    ELSE devsOutcome(getBackingDevices(fail, tree))

\* The vdev trees of the initial states: leaves, groups of up to MaxDevices
\* leaves, and a root of up to MaxDevices leaves or groups.  A missing or
\* hole vdev has no children (zpool.go:158); a spare in the tree is one in
\* use, with the devices it stands between.
VDev(t, n, ds) == [type |-> t, name |-> n, devices |-> ds]

LeafVDevs ==
    {VDev("disk", n, <<>>) : n \in {"a", "b"}}
    \cup {VDev(t, "f", <<>>) : t \in {"file", "missing"}}

GroupVDevs ==
    {VDev(t, t, ds) : t \in {"mirror", "raidz", "replacing", "spare"},
                      ds \in UNION {[1..k -> LeafVDevs] : k \in 1..MaxDevices}}

TopVDevs == LeafVDevs \cup GroupVDevs \cup {VDev("hole", "hole", <<>>)}

PoolTrees ==
    {VDev("root", "t", ds) : ds \in UNION {[1..k -> TopVDevs] : k \in 1..MaxDevices}}

\* A pool of one mirror of two disks.
PlainTree ==
    VDev("root", "t", << VDev("mirror", "mirror",
                              << VDev("disk", "a", <<>>), VDev("disk", "b", <<>>) >>) >>)

DevsInit ==
    /\ \/ \E tr \in PoolTrees :
            bd = [step |-> "start", help |-> FALSE, nargs |-> 1, fail |-> "none",
                  tree |-> tr]
       \/ \E h \in BOOLEAN, n \in 0..2, f \in {"none", "open", "pool", "tree"} :
            bd = [step |-> "start", help |-> h, nargs |-> n, fail |-> f,
                  tree |-> PlainTree]
    /\ EngineOff
    /\ CodecOff

DevsMain ==
    /\ bd.step = "start"
    /\ bd' = [step |-> "exited", help |-> bd.help, nargs |-> bd.nargs, fail |-> bd.fail,
              tree |-> bd.tree,
              res  |-> devsMain(bd.help, bd.nargs, bd.fail, bd.tree)]
    /\ UNCHANGED codecVars
    /\ UNCHANGED engineVars

DevsNext == DevsMain

SpecDevs == DevsInit /\ [][DevsNext]_vars

----------------------------------------------------------------------------
(* C1: round trip of the naming codec.                                      *)

\* The wall-clock year that Format prints for t.
WallYear(t) == civilFromDays(t.day + (t.sod + t.off) \div 86400).year

\* The identities the claim calls valid.
ClaimValidIdentity(m) ==
    /\ Len(m.label) > 0 /\ \A i \in 1..Len(m.label) : m.label[i] # "_"
    /\ m.ts.ns = 0

\* ... and what the codec needs besides.
CodecValidIdentity(m) ==
    /\ ClaimValidIdentity(m)
    /\ Len(m.prefix) > 0
    /\ \A i \in 1..Len(m.prefix) : m.prefix[i] \notin {"@", "\n"}
    /\ WallYear(m.ts) >= 0 /\ WallYear(m.ts) <= 9999
    /\ m.ts.off % 60 = 0

RoundTripOK ==
    /\ ~cRes.err
    /\ Len(cRes.meta) = 1
    /\ cRes.meta[1].dataset = cMeta.dataset
    /\ cRes.meta[1].prefix = cMeta.prefix
    /\ cRes.meta[1].label = cMeta.label
    /\ TimeEqual(cRes.meta[1].ts, cMeta.ts)

\* C1 as stated: every identity with a non-empty underscore-free label and a
\* whole-second timestamp decodes, from its own Path(), to an identity equal
\* in dataset, prefix, label and timestamp.
C1_Original ==
    (cStep = "decoded" /\ ClaimValidIdentity(cMeta)) => RoundTripOK

\* C1 amended: the round trip holds for every identity whose label is
\* non-empty and has no underscore, whose prefix is non-empty and has no "@"
\* and no line break, and whose timestamp has whole seconds, a wall-clock
\* year of four digits and a zone offset of whole minutes.
C1_RoundTrip ==
    (cStep = "decoded" /\ CodecValidIdentity(cMeta)) => RoundTripOK

\* A decoded identity in a zone west of UTC whose prefix holds an underscore.
C1_Witness ==
    /\ cStep = "decoded" /\ CodecValidIdentity(cMeta) /\ RoundTripOK
    /\ cMeta.ts.off < 0
    /\ \E i \in 1..Len(cMeta.prefix) : cMeta.prefix[i] = "_"

----------------------------------------------------------------------------
(* The passes of a run, and what the collaborator holds, read off the       *)
(* names themselves.                                                        *)

PassSet == {passes[i] : i \in 1..Len(passes)}

\* The text every own snapshot of (ds, label) starts with.
OwnHead(ds, label) == ds \o <<"@">> \o cli.prefix \o <<"_">> \o label \o <<"_">>

\* The timestamp text of n after that head, parsed.
Stamp(n, ds, label) == ParseRFC3339(SubSeq(n, Len(OwnHead(ds, label)) + 1, Len(n)))

\* n names a snapshot of the pair (ds, label) under the current prefix.
Decodes(n, ds, label) ==
    /\ Len(n) > Len(OwnHead(ds, label))
    /\ SubSeq(n, 1, Len(OwnHead(ds, label))) = OwnHead(ds, label)
    /\ Stamp(n, ds, label).ok

OwnOf(zs, ds, label) == {n \in SeqToSet(zs) : Decodes(n, ds, label)}

Secs(t) == t.day * 86400 + t.sod

\* Whole seconds from t to now.
Elapsed(now, t) == Secs(now) - Secs(t) - (IF t.ns > now.ns THEN 1 ELSE 0)

NewerThan(a, b) == Secs(a) > Secs(b) \/ (Secs(a) = Secs(b) /\ a.ns > b.ns)

\* The snapshots in the mirror of d.
MirrorNames(d) ==
    {tool.children[d][i].path :
        i \in {x \in 1..Len(tool.children[d]) : tool.children[d][x].type = "snapshot"}}

Listed(p) == {p.listed[i] : i \in 1..Len(p.listed)}
Marked(p) == {p.marked[i] : i \in 1..Len(p.marked)}

\* The listed snapshots with at least k listed snapshots newer than them.
Beyond(p, k) ==
    {m \in Listed(p) : Cardinality({x \in Listed(p) : NewerThan(x.ts, m.ts)}) >= k}

Max(a, b) == IF a >= b THEN a ELSE b

----------------------------------------------------------------------------
(* C2: the keep most recent snapshots of a pair are never destroyed.        *)

\* The pair of pass p when its i-th Destroy request is made.
PairAt(p, i) ==
    (OwnOf(p.before, p.ds, p.series.Label)
        \cup (IF p.created THEN {p.createReq[1]} ELSE {}))
    \ {p.destroyReqs[j].path : j \in {x \in 1..(i - 1) : p.destroyReqs[x].ok}}

\* C2: in every run, whenever destruction of a snapshot is requested, at
\* least keep other snapshots of its (dataset, label) pair are more recent
\* than it, the snapshot created in the same pass being one of the pair.
C2_KeepNewest ==
    \A p \in PassSet : \A i \in 1..Len(p.destroyReqs) :
        LET n == p.destroyReqs[i].path
        IN  Cardinality({x \in PairAt(p, i) \ {n} :
                NewerThan(Stamp(x, p.ds, p.series.Label).t,
                          Stamp(n, p.ds, p.series.Label).t)}) >= p.series.Keep

\* A second run that took a snapshot and destroyed one.
C2_Witness ==
    /\ runs = MaxRuns
    /\ \E p \in PassSet :
        /\ p.created
        /\ \E i \in 1..Len(p.destroyReqs) : p.destroyReqs[i].ok

----------------------------------------------------------------------------
(* C3: the create rule.                                                     *)

\* C3: a pass decides a new snapshot exactly when the dataset has no
\* snapshot of the series' label or the newest one is at least the interval
\* old, and requests it exactly when that is decided and creation is allowed.
C3_CreateRule ==
    \A p \in PassSet :
        ~p.listErr =>
            LET own == OwnOf(p.before, p.ds, p.series.Label)
            IN  /\ p.due <=>
                     \/ own = {}
                     \/ \A n \in own :
                          Elapsed(p.now, Stamp(n, p.ds, p.series.Label).t)
                              >= p.series.Interval
                /\ (p.createReq # <<>>) <=> (p.due /\ cli.create /\ ~cli.dryRun)

\* With an interval of one hour: a pass whose newest snapshot is 30 minutes
\* old and that decides nothing, and one whose newest snapshot is 61 minutes
\* old and that takes a new one.
C3_Witness ==
    /\ \E p \in PassSet :
        /\ p.series.Interval = 3600 /\ ~p.listErr /\ ~p.due
        /\ \E n \in OwnOf(p.before, p.ds, p.series.Label) :
             Elapsed(p.now, Stamp(n, p.ds, p.series.Label).t) = 30 * 60
    /\ \E p \in PassSet :
        /\ p.series.Interval = 3600 /\ p.due /\ p.created
        /\ \A n \in OwnOf(p.before, p.ds, p.series.Label) :
             Elapsed(p.now, Stamp(n, p.ds, p.series.Label).t) >= 61 * 60
        /\ \E n \in OwnOf(p.before, p.ds, p.series.Label) :
             Elapsed(p.now, Stamp(n, p.ds, p.series.Label).t) = 61 * 60

----------------------------------------------------------------------------
(* C4: trimming when nothing is due.                                        *)

\* When nothing is due, the marked snapshots are the listed ones beyond the
\* keep newest, each once.
TrimMarksOldest ==
    \A p \in PassSet :
        (~p.listErr /\ ~p.due) =>
            /\ Marked(p) = Beyond(p, p.series.Keep)
            /\ Len(p.marked) = Max(0, Len(p.listed) - p.series.Keep)

\* After a pass with destruction enabled and no error the pair holds at
\* most keep snapshots.
TrimLeavesKeep ==
    \A p \in PassSet :
        (tool.allowDestroy /\ ~p.err) =>
            Cardinality(OwnOf(p.after, p.ds, p.series.Label)) <= p.series.Keep

\* C4 as stated: when nothing is due exactly the n - keep oldest snapshots
\* are marked, none when n <= keep, and after a pass with destruction
\* enabled that reports no error the pair holds at most keep snapshots.
C4_Original == TrimMarksOldest /\ TrimLeavesKeep

----------------------------------------------------------------------------
(* C5: the new snapshot is counted before trimming.                         *)

PrependThenTrim(p) ==
    /\ Marked(p) = Beyond(p, p.series.Keep - 1)
    /\ Len(p.marked) = Max(0, Len(p.listed) + 1 - p.series.Keep)

----------------------------------------------------------------------------
(* C6: marking with creation enabled and with creation suppressed.          *)

\* What pass p marks when it is made with allowCreate = create.
MarkedIf(p, create) ==
    LET q == SeriesPass(p.ds, tool.children[p.ds], p.series, p.before, 0, p.now,
                        cli.prefix, create, FALSE, NoFault)
    IN  {q.marked[i] : i \in 1..Len(q.marked)}

----------------------------------------------------------------------------
(* C7: dry-run and the create and destroy toggles.                          *)

\* C7: with -dry-run, or without create, no snapshot is requested; with
\* -dry-run, or without destroy, no destruction is requested; with -dry-run,
\* or without both, the collaborator holds during and after the run what it
\* held when the run began.
C7_Frame ==
    /\ \A p \in PassSet :
        /\ (cli.dryRun \/ ~cli.create) => p.createReq = <<>>
        /\ (cli.dryRun \/ ~cli.destroy) => p.destroyReqs = <<>>
    /\ (pc \in {"loop", "done"} /\ (cli.dryRun \/ (~cli.create /\ ~cli.destroy))) =>
            \A d \in Datasets : SeqToSet(zfs[d]) = MirrorNames(d)

\* A finished dry run with create and destroy both set, one of whose passes
\* was due and marked a snapshot.
C7_Witness ==
    /\ pc = "done" /\ ~runErr
    /\ cli.dryRun /\ cli.create /\ cli.destroy
    /\ \E p \in PassSet : p.due /\ p.marked # <<>>

----------------------------------------------------------------------------
(* C8: Main and the pairs of target datasets and configured series.         *)

\* C8 as stated: when Main has returned without error, every pair of a
\* dataset that passed exclusion and scan gating and a series of the
\* configuration has been evaluated.
C8_Original ==
    (pc = "done" /\ runs > 0 /\ ~runErr) =>
        \A d \in MainSetup(cli, env).targets : \A i \in 1..Len(conf) :
            \E p \in PassSet : p.ds = d /\ p.series = conf[i]

----------------------------------------------------------------------------
(* C9: snapshots that are not the pair's own.                               *)

\* C9: every snapshot whose destruction is requested carries the dataset,
\* the current prefix and the label of the series being processed and a
\* timestamp; and the snapshots counted are as many as the dataset has of
\* these, each with that prefix and label.
C9_OwnOnly ==
    \A p \in PassSet :
        /\ \A i \in 1..Len(p.destroyReqs) :
             Decodes(p.destroyReqs[i].path, p.ds, p.series.Label)
        /\ ~p.listErr =>
             /\ Len(p.listed) =
                  Cardinality({n \in MirrorNames(p.ds) : Decodes(n, p.ds, p.series.Label)})
             /\ \A m \in Listed(p) \cup Marked(p) :
                  m.prefix = cli.prefix /\ m.label = p.series.Label

\* A pass that destroyed a snapshot of a dataset that also holds a manual
\* snapshot, one of another prefix and one of another label.
C9_Witness ==
    \E p \in PassSet :
        /\ p.ds = PoolRoot /\ p.series.Label = Hourly
        /\ \E i \in 1..Len(p.destroyReqs) : p.destroyReqs[i].ok
        /\ SeqToSet(RootFixed) \subseteq SeqToSet(p.after)
        /\ OwnName(PoolRoot, Daily, 0 - 10800) \in SeqToSet(p.after)
        /\ Len(p.listed) < Len(p.before)

----------------------------------------------------------------------------
(* C10: two runs in succession.                                             *)

SecondRunDone == prev.valid /\ pc = "done"

ElapsedBelowIntervals ==
    \A i \in 1..Len(cli.config) : clock - prev.clock < cli.config[i].Interval

RemovedBy(ps) ==
    UNION { {ps[i].destroyReqs[j].path :
                j \in {x \in 1..Len(ps[i].destroyReqs) : ps[i].destroyReqs[x].ok}} :
            i \in 1..Len(ps) }

Idempotent ==
    /\ \A p \in PassSet : ~p.due
    /\ \A p \in PassSet : \A j \in 1..Len(p.destroyReqs) :
         p.destroyReqs[j].path \notin RemovedBy(prev.passes)
    /\ zfs = prev.zfs

\* Every pair had, when the first run ended, a snapshot that is younger
\* than the series' interval when the second run is made.
FreshPairs ==
    \A d \in Datasets : \A i \in 1..Len(cli.config) :
        \E n \in OwnOf(prev.zfs[d], d, cli.config[i].Label) :
            Elapsed(TimeAt(clock, env.tz), Stamp(n, d, cli.config[i].Label).t)
                < cli.config[i].Interval

----------------------------------------------------------------------------
(* C11: a failure while one pair is processed and the remaining pairs.      *)

\* Every pair of a dataset and a series of the configuration has a pass.
EveryPairPassed ==
    \A d \in Datasets : \A i \in 1..Len(conf) :
        \E p \in PassSet : p.ds = d /\ p.series = conf[i]

\* C11 as stated: when a run in which the collaborator failed for one pair
\* has ended, every other pair has been processed all the same.
C11_Original ==
    (pc = "done" /\ runs > 0 /\ \E p \in PassSet : p.err) => EveryPairPassed

----------------------------------------------------------------------------
(* C12: a snapshot that matches the grammar with an invalid timestamp.      *)

\* The snapshots of zs whose decoding under the current prefix is an error.
DecodeErrors(zs) == {n \in SeqToSet(zs) : parseChild(cli.prefix, n).err}

\* C12 as stated: a pass over a dataset that holds a snapshot with a
\* matching name and an invalid timestamp does not fail in its listing; it
\* lists every decodable snapshot of its pair and leaves the invalid one out.
C12_Original ==
    \A p \in PassSet :
        DecodeErrors(p.before) # {} =>
            /\ ~p.listErr
            /\ Cardinality(Listed(p)) =
                   Cardinality(OwnOf(p.before, p.ds, p.series.Label))

----------------------------------------------------------------------------
(* C13, C14: the three results of parseSnapName.                            *)

NoIdentity == [meta |-> <<>>, err |-> FALSE]

\* The timestamp text of the pieces q is one that time.Parse reads.
StampValid(q) == q.date.valid /\ q.sep.valid /\ q.clock.valid /\ q.zone.valid

\* C13: a name that does not have the form dataset@prefix_label_timestamp,
\* or that has it with a prefix other than the expected one, decodes to no
\* identity and no error, whatever its timestamp text.
C13_NoMatch ==
    (cStep = "parsed" /\ (cMeta.shape # "own" \/ cMeta.prefix # cMeta.expected))
        => cRes = NoIdentity

\* A name of another prefix with month 13 was decoded to nothing.
C13_Witness ==
    /\ cStep = "parsed"
    /\ cMeta.shape = "own" /\ cMeta.prefix = <<"y">> /\ cMeta.expected = <<"z">>
    /\ ~cMeta.date.valid /\ cMeta.zone.text = <<"Z">>
    /\ cRes = NoIdentity

\* C14: a name of the form dataset@prefix_label_timestamp with the expected
\* prefix decodes to an error and no identity when its timestamp text is not
\* a valid timestamp, and to the identity of its pieces when it is; no
\* identity is ever returned for an invalid timestamp.
C14_HardError ==
    /\ (cStep = "parsed" /\ cMeta.shape = "own" /\ cMeta.prefix = cMeta.expected) =>
          IF StampValid(cMeta)
          THEN /\ ~cRes.err /\ Len(cRes.meta) = 1
               /\ cRes.meta[1].dataset = cMeta.dataset
               /\ cRes.meta[1].prefix = cMeta.prefix
               /\ cRes.meta[1].label = cMeta.label
          ELSE cRes.err /\ cRes.meta = <<>>
    /\ (cStep = "parsed" /\ Len(cRes.meta) = 1) => StampValid(cMeta)

\* A name of the expected prefix without a zone designator was decoded to an
\* error.
C14_Witness ==
    /\ cStep = "parsed"
    /\ cMeta.shape = "own" /\ cMeta.prefix = cMeta.expected
    /\ cMeta.date.valid /\ cMeta.sep.valid /\ cMeta.clock.valid
    /\ cMeta.zone.text = <<>>
    /\ cRes.err /\ cRes.meta = <<>>

----------------------------------------------------------------------------
(* C15: what removeSnapshots returns.                                       *)

\* The Destroy requests of the pass p that succeeded.
Destroyed(p) == {i \in 1..Len(p.destroyReqs) : p.destroyReqs[i].ok}

\* C15 as stated: a pass that hands snapshots to removeSnapshots ends with an
\* error when a destruction failed or a requested snapshot was not found,
\* and without error only when every requested snapshot was destroyed.
C15_Original ==
    \A p \in PassSet :
        (p.marked # <<>> /\ allowed(cli.destroy, cli.dryRun)) =>
            (p.err <=> Cardinality(Destroyed(p)) < Len(p.marked))

----------------------------------------------------------------------------
(* C16: a configuration with an invalid series.                             *)

\* The series s is one the claim calls invalid.
InvalidSeries(s) == Len(s.Label) = 0 \/ s.Keep < 1 \/ s.Interval < 1

InvalidConfig == \E i \in 1..Len(cli.config) : InvalidSeries(cli.config[i])

\* Nothing was created or destroyed since the initial state.
NothingMutated == zfs = InitSnapshots /\ passes = <<>>

\* C16: once Main has been started with a configuration that has a series
\* with an empty label, a keep below 1 or an interval below 1, the run has
\* ended with an error, raised by the loading of the configuration when the
\* targets could be selected, no series was loaded, and no snapshot was
\* created or destroyed.
C16_RejectedAtLoad ==
    (runs > 0 /\ InvalidConfig) =>
        /\ pc = "done" /\ runErr
        /\ ~setup.selErr => setup.loadErr
        /\ conf = <<>>
        /\ NothingMutated

\* A run over both datasets ended at the loading of a configuration whose
\* second series has a negative keep.
C16_Witness ==
    /\ runs > 0 /\ pc = "done" /\ setup.loadErr
    /\ Len(cli.config) = 2 /\ ~InvalidSeries(cli.config[1]) /\ InvalidSeries(cli.config[2])
    /\ targets = Datasets
    /\ NothingMutated

----------------------------------------------------------------------------
(* C17: arguments that selectDatasets refuses.                              *)

ArgSet == {cli.args[i] : i \in 1..Len(cli.args)}

\* The argument list is empty, or has "//" beside another argument, or names
\* something that is not a filesystem of the pool.
RefusedArgs ==
    \/ Len(cli.args) = 0
    \/ Sentinel \in ArgSet /\ Len(cli.args) > 1
    \/ \E a \in ArgSet : a # Sentinel /\ a \notin Datasets

\* C17: once Main has been started with such arguments, selectDatasets has
\* returned an error and no dataset, the run has ended with an error, and no
\* snapshot was created or destroyed.
C17_SelectionError ==
    (runs > 0 /\ RefusedArgs) =>
        /\ setup.selErr /\ setup.selected = {}
        /\ pc = "done" /\ runErr
        /\ NothingMutated

\* A run with the arguments "t //", a valid configuration and nothing
\* excluded ended at the selection.
C17_Witness ==
    /\ runs > 0 /\ pc = "done" /\ setup.selErr
    /\ cli.args = <<PoolRoot, Sentinel>>
    /\ cli.configPath /\ ~InvalidConfig
    /\ env.props = NoProps /\ ~env.scanning
    /\ NothingMutated

----------------------------------------------------------------------------
(* C18: what selectDatasets returns.                                        *)

\* x is d or lies below d in the dataset tree, by its name.
AtOrBelow(x, d) ==
    \/ x = d
    \/ Len(x) > Len(d) + 1 /\ SubSeq(x, 1, Len(d)) = d /\ x[Len(d) + 1] = "/"

IsSnapshotName(x) == \E i \in 1..Len(x) : x[i] = "@"

----------------------------------------------------------------------------
(* C19: the exclusion property.                                             *)

\* v reads "true", or "false", in any mix of upper and lower case.
IsTrueText(v) ==
    /\ Len(v) = 4
    /\ v[1] \in {"t", "T"} /\ v[2] \in {"r", "R"} /\ v[3] \in {"u", "U"}
    /\ v[4] \in {"e", "E"}

IsFalseText(v) ==
    /\ Len(v) = 5
    /\ v[1] \in {"f", "F"} /\ v[2] \in {"a", "A"} /\ v[3] \in {"l", "L"}
    /\ v[4] \in {"s", "S"} /\ v[5] \in {"e", "E"}

\* What the claim gives for a dataset with the property prop: whether it is
\* excluded, and whether a warning is due.
ClaimedExcluded(prop) ==
    IF prop = <<>> THEN cli.defaultExclude
    ELSE IF IsTrueText(prop[1]) THEN FALSE
    ELSE IF IsFalseText(prop[1]) THEN TRUE
    ELSE cli.defaultExclude

ClaimedWarning(prop) == prop # <<>> /\ ~IsTrueText(prop[1]) /\ ~IsFalseText(prop[1])

\* C19: for every selected dataset, Main's exclusion loop removed it exactly
\* when the claim says datasetExcluded returns excluded for its property and
\* -default-exclude, and warned exactly for a present value that is neither
\* "true" nor "false"; the test itself never ends the run with an error.
C19_Excluded ==
    runs > 0 =>
        /\ \A d \in setup.selected :
              /\ d \in setup.excluded <=> ClaimedExcluded(env.props[d])
              /\ d \in setup.warned <=> ClaimedWarning(env.props[d])
        /\ (~setup.selErr /\ ~setup.loadErr /\ passes = <<>>) => ~runErr

\* With include-by-default, the root with the value "x" was warned about and
\* processed, and the child with the value "False" was excluded.
C19_Witness ==
    /\ runs > 0 /\ ~cli.defaultExclude
    /\ setup.selected = Datasets
    /\ env.props[PoolRoot] = << <<"x">> >>
    /\ env.props[ChildFs] = << <<"F", "a", "l", "s", "e">> >>
    /\ setup.warned = {PoolRoot} /\ setup.excluded = {ChildFs}
    /\ \E p \in PassSet : p.ds = PoolRoot /\ p.created

----------------------------------------------------------------------------
(* C20: datasets of a pool that is being scrubbed or resilvered.            *)

\* No selected dataset is a target, none was visited, no snapshot was
\* created or destroyed, and the mirror still has every filesystem.
ScanGated ==
    /\ \A d \in setup.selected : d \in setup.excluded \cup setup.skipped
    /\ NothingMutated
    /\ tool.datasetsByName = Datasets

\* C20 as stated: in a run started while the pool reports a scan, every
\* selected dataset is omitted from the targets, whatever its property.
C20_Original == (runs > 0 /\ env.scanning) => ScanGated

\* C20 amended: the same, for runs with -skip-scrub set (the default); every
\* selected dataset the exclusion property left in is skipped for the scan.
C20_ScanGating ==
    (runs > 0 /\ env.scanning /\ cli.skipScrub) =>
        /\ ScanGated
        /\ setup.skipped = setup.selected \ setup.excluded

\* With -skip-scrub and a scan going on, the root, whose property is "true",
\* was selected and skipped, and the run ended without error and without a
\* pass.
C20_Witness ==
    /\ runs > 0 /\ pc = "done" /\ ~runErr
    /\ env.scanning /\ cli.skipScrub
    /\ env.props[PoolRoot] = << <<"t", "r", "u", "e">> >>
    /\ PoolRoot \in setup.skipped
    /\ PoolRoot \in tool.datasetsByName
    /\ passes = <<>> /\ zfs = InitSnapshots

----------------------------------------------------------------------------
(* C21: re-encoding a decoded name.                                         *)

\* C21 as stated: every name that parseSnapName returns an identity for is
\* the Path() of that identity, character for character.
C21_Original ==
    (cStep = "parsed" /\ Len(cRes.meta) = 1) => Path(cRes.meta[1]) = cName

----------------------------------------------------------------------------
(* C22: a run that ends before every pair was processed.                    *)

\* Main's last loop was entered and left with a pair not processed.
StoppedEarly == pc = "done" /\ runs > 0 /\ conf # <<>> /\ ~EveryPairPassed

\* C22 as stated: a run whose loop stopped between two iterations, with
\* pairs left over, has ended normally and not with a failure.
C22_Original == StoppedEarly => ~runErr

----------------------------------------------------------------------------
(* C23: what zfs-backing-devs prints.                                       *)

\* The names of the disk vdevs of the tree n, in the order of the tree.
RECURSIVE DiskNames(_)
DiskNames(n) ==
    LET RECURSIVE below(_, _)
        below(cs, i) == IF i > Len(cs) THEN <<>> ELSE DiskNames(cs[i]) \o below(cs, i + 1)
    IN  (IF n.type = "disk" THEN <<n.name>> ELSE <<>>) \o below(n.devices, 1)

\* C23 as stated: zfs-backing-devs run with one dataset name has printed the
\* name of every disk vdev of the pool's tree and exited with status 0, or,
\* when a lookup failed or the tree has no disk vdev, has printed nothing,
\* reported an error and exited with status 1.
C23_Original ==
    (bd.step = "exited" /\ ~bd.help /\ bd.nargs = 1) =>
        IF bd.fail # "none" \/ DiskNames(bd.tree) = <<>>
        THEN bd.res = [out |-> <<>>, status |-> 1, note |-> "error"]
        ELSE bd.res = [out |-> DiskNames(bd.tree), status |-> 0, note |-> ""]

----------------------------------------------------------------------------
(* C24: the list getSnapshots returns.                                      *)

\* The snapshots in the mirror of p's dataset that decode with p's label.
MirrorOwn(p) == {n \in MirrorNames(p.ds) : Decodes(n, p.ds, p.series.Label)}

\* C24: every list that getSnapshots returns holds one identity for each
\* snapshot child of the dataset whose name decodes under the current prefix
\* with the label, and nothing else, and no element of the list is older
\* than the element after it.
C24_Listing ==
    \A p \in PassSet :
        ~p.listErr =>
            /\ Len(p.listed) = Cardinality(MirrorOwn(p))
            /\ {m.ts : m \in Listed(p)} =
                   {Stamp(n, p.ds, p.series.Label).t : n \in MirrorOwn(p)}
            /\ \A m \in Listed(p) :
                   m.dataset = p.ds /\ m.prefix = cli.prefix /\ m.label = p.series.Label
            /\ \A i \in 1..(Len(p.listed) - 1) :
                   ~NewerThan(p.listed[i + 1].ts, p.listed[i].ts)

\* A listing of three hourly snapshots, one of them with a fractional
\* second, of a dataset that also holds a daily, a manual and a foreign one.
C24_Witness ==
    \E p \in PassSet :
        /\ ~p.listErr /\ p.ds = PoolRoot /\ p.series.Label = Hourly
        /\ Len(p.listed) = 3
        /\ \E m \in Listed(p) : m.ts.ns > 0
        /\ OwnName(PoolRoot, Daily, 0 - 10800) \in SeqToSet(p.before)
        /\ NewerThan(p.listed[1].ts, p.listed[3].ts)

----------------------------------------------------------------------------
(* C25: a later run and the snapshots an earlier run created.               *)

\* The passes of the previous run.
PrevPassSet == {prev.passes[i] : i \in 1..Len(prev.passes)}

\* The snapshot that the pass q created is, in the pass p of the same pair,
\* decoded to the pair's dataset, prefix and label, and listed.
Recognised(q, p) ==
    /\ Len(parseSnapName(cli.prefix, q.createReq[1]).meta) = 1
    /\ parseSnapName(cli.prefix, q.createReq[1]).meta[1].dataset = q.ds
    /\ parseSnapName(cli.prefix, q.createReq[1]).meta[1].prefix = cli.prefix
    /\ parseSnapName(cli.prefix, q.createReq[1]).meta[1].label = q.series.Label
    /\ \E m \in Listed(p) : Path(m) = q.createReq[1]

\* C25 as stated: a snapshot that a run created for a pair, and that is still
\* there, is recognised by the next run's pass over the same pair.
C25_Original ==
    prev.valid =>
        \A q \in PrevPassSet : \A p \in PassSet :
            (/\ q.created /\ p.ds = q.ds /\ p.series = q.series
             /\ q.createReq[1] \in SeqToSet(p.before))
                => Recognised(q, p)

----------------------------------------------------------------------------
(* C26: the snapshot a pass creates and the snapshots it marks.             *)

\* The names of the snapshots that the pass p marked and asked to destroy.
MarkedNames(p) == {Path(m) : m \in Marked(p)}
RequestedNames(p) == {p.destroyReqs[i].path : i \in 1..Len(p.destroyReqs)}

\* C26: the snapshot that a pass created is not among those the pass marked,
\* by identity and by name; and every snapshot that a pass of the run marks
\* or asks to destroy is in the session mirror and was not created in the
\* run.
C26_NewNotMarked ==
    \A p \in PassSet :
        /\ p.created =>
              /\ \A m \in Marked(p) : ~TimeEqual(m.ts, p.now)
              /\ p.createReq[1] \notin MarkedNames(p) \cup RequestedNames(p)
        /\ RequestedNames(p) \subseteq MirrorNames(p.ds)
        /\ \A q \in PassSet :
              q.created => q.createReq[1] \notin MarkedNames(p) \cup RequestedNames(p)

\* A pass that created a snapshot, marked others and had one destroyed.
C26_Witness ==
    \E p \in PassSet :
        /\ p.created /\ p.series.Keep = 1
        /\ Len(p.marked) >= 2
        /\ \E i \in 1..Len(p.destroyReqs) : p.destroyReqs[i].ok

----------------------------------------------------------------------------
(* C27: what a pass over one pair leaves alone.                             *)

\* n carries the dataset, the prefix and the label of the pass p.
OfPair(n, p) ==
    /\ Len(n) > Len(OwnHead(p.ds, p.series.Label))
    /\ SubSeq(n, 1, Len(OwnHead(p.ds, p.series.Label))) = OwnHead(p.ds, p.series.Label)

\* The snapshots of zs that do not belong to the pair of p, in their order.
Others(zs, p) == SelectSeq(zs, LAMBDA n : ~OfPair(n, p))

\* The last pass before the i-th that was over the same dataset, or 0.
EarlierPass(i) ==
    Max(0, CHOOSE j \in 0..(i - 1) :
              /\ j > 0 => passes[j].ds = passes[i].ds
              /\ \A k \in (j + 1)..(i - 1) : passes[k].ds # passes[i].ds)

\* C27: the snapshot a pass asks to create and those it asks to destroy
\* carry its dataset and its series' label; the snapshots of its dataset that
\* do not carry them are after the pass what they were before it; and a
\* dataset's snapshots are the same at the start of a pass as at the end of
\* the last pass over that dataset, or as at the start of the run, whatever
\* passes over other datasets came between.
C27_SeriesFrame ==
    /\ \A p \in PassSet :
          /\ \A i \in 1..Len(p.createReq) : OfPair(p.createReq[i], p)
          /\ \A i \in 1..Len(p.destroyReqs) : OfPair(p.destroyReqs[i].path, p)
          /\ Others(p.after, p) = Others(p.before, p)
    /\ \A i \in 1..Len(passes) :
          SeqToSet(passes[i].before) =
              IF EarlierPass(i) = 0 THEN MirrorNames(passes[i].ds)
              ELSE SeqToSet(passes[EarlierPass(i)].after)
    /\ pc \in {"loop", "done"} =>
          \A d \in Datasets :
              (\A p \in PassSet : p.ds # d) => SeqToSet(zfs[d]) = MirrorNames(d)

\* An hourly pass that created one snapshot and destroyed another on a
\* dataset holding a daily snapshot, followed by a pass over the other dataset.
C27_Witness ==
    /\ Len(passes) >= 2
    /\ passes[1].ds # passes[Len(passes)].ds
    /\ \E p \in PassSet :
          /\ p.series.Label = Hourly /\ p.created
          /\ \E i \in 1..Len(p.destroyReqs) : p.destroyReqs[i].ok
          /\ OwnName(PoolRoot, Daily, 0 - 10800) \in SeqToSet(p.after)

----------------------------------------------------------------------------
(* C28: the requests of one run.                                            *)

\* The create requests of the run, as <<pass, name>>, and its destroy
\* requests, as <<pass, request, name>>.
CreateRequests ==
    {<<i, passes[i].createReq[1]>> : i \in {x \in 1..Len(passes) : passes[x].createReq # <<>>}}

DestroyRequests ==
    UNION { {<<i, j, passes[i].destroyReqs[j].path>> : j \in 1..Len(passes[i].destroyReqs)} :
            i \in 1..Len(passes) }

\* C28 as stated: in a run, no two create requests are for the same dataset
\* and label or carry the same name, and no two destroy requests name the
\* same snapshot.
C28_Original ==
    /\ \A a, b \in CreateRequests :
          (\/ a[2] = b[2]
           \/ /\ passes[a[1]].ds = passes[b[1]].ds
              /\ passes[a[1]].series.Label = passes[b[1]].series.Label) => a = b
    /\ \A a, b \in DestroyRequests : a[3] = b[3] => a = b

----------------------------------------------------------------------------
(* C29: a destruction that fails.                                           *)

\* C29: in every pass, a destroy request that failed is the last request of
\* the pass and the pass ended with an error; the snapshots destroyed before
\* it are gone from the dataset and the one that failed to be destroyed, if
\* it was there, is still there; and the dataset is left as the pass left it.
C29_StopAtFirstFailure ==
    /\ \A p \in PassSet : \A i \in 1..Len(p.destroyReqs) :
          /\ p.destroyReqs[i].ok => p.destroyReqs[i].path \notin SeqToSet(p.after)
          /\ ~p.destroyReqs[i].ok =>
                /\ i = Len(p.destroyReqs)
                /\ p.err
                /\ p.destroyReqs[i].path \in SeqToSet(p.before)
                      => p.destroyReqs[i].path \in SeqToSet(p.after)
    /\ (pc = "done" /\ passes # <<>>) =>
          zfs[passes[Len(passes)].ds] = passes[Len(passes)].after

\* A pass that marked three snapshots, destroyed the first, failed on the
\* second and made no request for the third; the run has ended.
C29_Witness ==
    /\ pc = "done" /\ runErr
    /\ \E p \in PassSet :
          /\ Len(p.marked) = 3 /\ Cardinality(MarkedNames(p)) = 3
          /\ Len(p.destroyReqs) = 2
          /\ p.destroyReqs[1].ok /\ ~p.destroyReqs[2].ok
          /\ p.destroyReqs[1].path \notin SeqToSet(zfs[p.ds])
          /\ p.destroyReqs[2].path \in SeqToSet(zfs[p.ds])

----------------------------------------------------------------------------
(* C30: a walk of preinit that fails.                                       *)

\* dd.Path() failed for a dataset during the walk of preinit.
WalkFailed == env.walkFail \in Datasets

\* C30 as stated: once Main has been started and the walk that builds the
\* mirror failed at some dataset, the run has ended with an error, no target
\* was selected, and no snapshot was created or destroyed.
C30_Original ==
    (runs > 0 /\ WalkFailed) =>
        /\ pc = "done" /\ runErr
        /\ setup.selected = {} /\ targets = {}
        /\ NothingMutated

\* What the code does instead: the mirror holds the datasets stored before
\* the failure, and the selection is made from it.
C30_PartialMirror ==
    (runs > 0 /\ WalkFailed) =>
        /\ tool.datasetsByName = preinit(env)
        /\ env.walkFail \notin tool.datasetsByName
        /\ (cli.args = <<Sentinel>>) =>
              (~setup.selErr /\ setup.selected = tool.datasetsByName)

\* The walk failed at the child, "//" selected the pool's root alone, and
\* the run went on to create and destroy snapshots of it without an error.
C30_Witness ==
    /\ runs > 0 /\ pc = "done" /\ ~runErr
    /\ env.walkFail = ChildFs
    /\ cli.args = <<Sentinel>>
    /\ setup.selected = {PoolRoot}
    /\ ~NothingMutated

====
